---- MODULE Spec2Model ----
(***************************************************************************)
(* Model of the APR readiness-polling engine (apr_poll and apr_pollset) in *)
(* its two build variants: the event-list backend (HAVE_POLL, native       *)
(* poll()) and the bitmap backend (native select(), with and without the   *)
(* WIN32 restriction on file handles).                                     *)
(*                                                                         *)
(* C arrays are sequences; C index i is sequence index i+1.  Event masks   *)
(* are sets of flag names: every APR_POLL* / POLL* constant is a distinct  *)
(* single bit, so "mask & FLAG" is membership and "|=" is union.           *)
(***************************************************************************)
EXTENDS Integers, Sequences, FiniteSets, TLC

\* Largest capacity handed to apr_pollset_create.
MaxAlloc == 4

\* ---------------------------------------------------------------------------
\* Build variants, statuses, flags
\* ---------------------------------------------------------------------------

\* HAVE_POLL / no HAVE_POLL / no HAVE_POLL with WIN32
Platforms == {"poll", "select", "select_win32"}

HAVE_POLL(pf) == pf = "poll"

WIN32(pf) == pf = "select_win32"

\* errno values the native wait can fail with
Errnos == {"EINTR", "EINVAL"}

AprFlags == {"APR_POLLIN", "APR_POLLPRI", "APR_POLLOUT",
             "APR_POLLERR", "APR_POLLHUP", "APR_POLLNVAL"}

NativeFlags == {"POLLIN", "POLLPRI", "POLLOUT", "POLLERR", "POLLHUP", "POLLNVAL"}

\* ---------------------------------------------------------------------------
\* Event-flag translation, event-list backend
\* ---------------------------------------------------------------------------

get_event(event) ==
    (IF "APR_POLLIN" \in event THEN {"POLLIN"} ELSE {}) \cup
    (IF "APR_POLLPRI" \in event THEN {"POLLPRI"} ELSE {}) \cup
    (IF "APR_POLLOUT" \in event THEN {"POLLOUT"} ELSE {}) \cup
    (IF "APR_POLLERR" \in event THEN {"POLLERR"} ELSE {}) \cup
    (IF "APR_POLLHUP" \in event THEN {"POLLHUP"} ELSE {}) \cup
    (IF "APR_POLLNVAL" \in event THEN {"POLLNVAL"} ELSE {})

\* get_revent without its POLLHUP line.
get_revent_drop_hup(event) ==
    (IF "POLLIN" \in event THEN {"APR_POLLIN"} ELSE {}) \cup
    (IF "POLLPRI" \in event THEN {"APR_POLLPRI"} ELSE {}) \cup
    (IF "POLLOUT" \in event THEN {"APR_POLLOUT"} ELSE {}) \cup
    (IF "POLLERR" \in event THEN {"APR_POLLERR"} ELSE {}) \cup
    (IF "POLLNVAL" \in event THEN {"APR_POLLNVAL"} ELSE {})

get_revent(event) ==
    (IF "POLLIN" \in event THEN {"APR_POLLIN"} ELSE {}) \cup
    (IF "POLLPRI" \in event THEN {"APR_POLLPRI"} ELSE {}) \cup
    (IF "POLLOUT" \in event THEN {"APR_POLLOUT"} ELSE {}) \cup
    (IF "POLLERR" \in event THEN {"APR_POLLERR"} ELSE {}) \cup
    (IF "POLLHUP" \in event THEN {"APR_POLLHUP"} ELSE {}) \cup
    (IF "POLLNVAL" \in event THEN {"APR_POLLNVAL"} ELSE {})

\* ---------------------------------------------------------------------------
\* Event-flag translation, bitmap backend: a request selects which of the
\* three fd_sets the handle is put in; a result is read back from the three
\* membership tests.
\* ---------------------------------------------------------------------------

fdset_request(reqevents) ==
    [rd |-> "APR_POLLIN" \in reqevents,
     wr |-> "APR_POLLOUT" \in reqevents,
     ex |-> reqevents \cap {"APR_POLLPRI", "APR_POLLERR",
                            "APR_POLLHUP", "APR_POLLNVAL"} # {}]

fdset_result(isset) ==
    (IF isset.rd THEN {"APR_POLLIN"} ELSE {}) \cup
    (IF isset.wr THEN {"APR_POLLOUT"} ELSE {}) \cup
    (IF isset.ex THEN {"APR_POLLERR"} ELSE {})

\* ---------------------------------------------------------------------------
\* Descriptor objects and descriptor-interest records (apr_pollfd_t)
\* ---------------------------------------------------------------------------

\* The socket / file objects a record's desc.s / desc.f can point to.
Descs == {1, 2, 3}

\* Object 3 is an apr_file_t, the others are apr_socket_t.
KindOf(d) == IF d = 3 THEN "APR_POLL_FILE" ELSE "APR_POLL_SOCKET"

\* desc.s->socketdes / desc.f->filedes : the native handle of an object.
Fd(d) == d + 2

NativeFds == {Fd(d) : d \in Descs}

Rec(d, req, tag) ==
    [desc_type |-> KindOf(d), desc |-> d, reqevents |-> req,
     rtnevents |-> {}, client_data |-> tag]

\* Records callers pass to apr_pollset_add.
InputRecords ==
    { Rec(1, {"APR_POLLIN"}, "a"),
      Rec(2, {"APR_POLLIN", "APR_POLLOUT", "APR_POLLPRI"}, "b"),
      Rec(2, {"APR_POLLOUT"}, "c"),
      Rec(3, {"APR_POLLIN"}, "d") }

\* The records registered in the runs that go on to wait on the pollset.
PollRecords == {r \in InputRecords : r.client_data # "c"}

\* Records callers pass to apr_pollset_remove (only the identity is used).
RemoveRecords == { Rec(d, {}, "r") : d \in Descs }

\* Content of memory returned by apr_palloc and not yet written.
Uninit == [desc_type |-> "uninit", desc |-> 0, reqevents |-> {},
           rtnevents |-> {}, client_data |-> "uninit"]

UninitFd == [fd |-> -1, events |-> {}]

\* Caller timeouts (apr_interval_time_t, microseconds).
Timeouts == {-1, 0, 500, 2000}

\* What the operating system knows about a handle at the time of a wait.
ReadyChoices == { {}, {"POLLIN"}, {"POLLIN", "POLLOUT", "POLLPRI", "POLLHUP"} }

\* Largest number of apr_pollset_poll calls made on one pollset.
MaxPolls == 2

\* Largest num handed to apr_poll.
MaxNum == 3

\* rtnevents of a record before any wait wrote it.
StaleEvents == {"APR_POLLNVAL"}

\* What a never-initialised revents field can hold.
GarbageChoices == { {}, {"POLLOUT", "POLLNVAL"} }

\* ---------------------------------------------------------------------------
\* struct apr_pollset_t and its operations
\* ---------------------------------------------------------------------------

apr_pollset_create(pf, size) ==
    [nelts |-> 0,
     nalloc |-> size,
     pollset |-> IF HAVE_POLL(pf) THEN [i \in 1..size |-> UninitFd] ELSE <<>>,
     readset |-> {},
     writeset |-> {},
     exceptset |-> {},
     maxfd |-> 0,
     query_set |-> [i \in 1..size |-> Uninit],
     result_set |-> [i \in 1..size |-> Uninit]]

\* Body of apr_pollset_add after the capacity check, bitmap backend.
add_fdsets(ps, descriptor, fd) ==
    LET req == fdset_request(descriptor.reqevents) IN
    [ps EXCEPT
        !.readset = IF req.rd THEN @ \cup {fd} ELSE @,
        !.writeset = IF req.wr THEN @ \cup {fd} ELSE @,
        !.exceptset = IF req.ex THEN @ \cup {fd} ELSE @,
        !.maxfd = IF fd > @ THEN fd ELSE @,
        !.nelts = @ + 1]

apr_pollset_add_nocheck(pf, ps, descriptor) ==
    LET q == [ps EXCEPT !.query_set[ps.nelts + 1] = descriptor] IN
    IF HAVE_POLL(pf)
    THEN [rv |-> "APR_SUCCESS",
          pollset |-> [q EXCEPT
              !.pollset[ps.nelts + 1] =
                  [fd |-> Fd(descriptor.desc),
                   events |-> get_event(descriptor.reqevents)],
              !.nelts = @ + 1]]
    ELSE IF descriptor.desc_type = "APR_POLL_SOCKET"
    THEN [rv |-> "APR_SUCCESS",
          pollset |-> add_fdsets(q, descriptor, Fd(descriptor.desc))]
    ELSE IF WIN32(pf)
    THEN [rv |-> "APR_EBADF", pollset |-> q]
    ELSE [rv |-> "APR_SUCCESS",
          pollset |-> add_fdsets(q, descriptor, Fd(descriptor.desc))]

\* apr_pollset_add refusing one entry early.
apr_pollset_add_early(pf, ps, descriptor) ==
    IF ps.nelts + 1 >= ps.nalloc
    THEN [rv |-> "APR_ENOMEM", pollset |-> ps]
    ELSE apr_pollset_add_nocheck(pf, ps, descriptor)

\* apr_pollset_add refusing only when nelts is already past nalloc.
apr_pollset_add_past_end(pf, ps, descriptor) ==
    IF ps.nelts > ps.nalloc
    THEN [rv |-> "APR_ENOMEM", pollset |-> ps]
    ELSE apr_pollset_add_nocheck(pf, ps, descriptor)

apr_pollset_add(pf, ps, descriptor) ==
    IF ps.nelts = ps.nalloc
    THEN [rv |-> "APR_ENOMEM", pollset |-> ps]
    ELSE apr_pollset_add_nocheck(pf, ps, descriptor)

\* remove_rest skipping later matches without lowering nelts.
RECURSIVE remove_rest_keep_count(_, _, _, _, _, _)
remove_rest_keep_count(pf, ps, descriptor, i, old_nelts, dst) ==
    IF i >= old_nelts
    THEN ps
    ELSE IF descriptor.desc = ps.query_set[i + 1].desc
    THEN remove_rest_keep_count(pf, ps, descriptor, i + 1, old_nelts, dst)
    ELSE remove_rest_keep_count(pf,
                     [ps EXCEPT
                        !.pollset = IF HAVE_POLL(pf)
                                    THEN [@ EXCEPT ![dst + 1] = ps.pollset[i + 1]]
                                    ELSE @,
                        !.query_set[dst + 1] = ps.query_set[i + 1]],
                     descriptor, i + 1, old_nelts, dst)

\* remove_rest moving the query_set entry and not the struct pollfd.
RECURSIVE remove_rest_query_only(_, _, _, _, _, _)
remove_rest_query_only(pf, ps, descriptor, i, old_nelts, dst) ==
    IF i >= old_nelts
    THEN ps
    ELSE IF descriptor.desc = ps.query_set[i + 1].desc
    THEN remove_rest_query_only(pf, [ps EXCEPT !.nelts = @ - 1],
                                descriptor, i + 1, old_nelts, dst)
    ELSE remove_rest_query_only(pf,
                     [ps EXCEPT !.query_set[dst + 1] = ps.query_set[i + 1]],
                     descriptor, i + 1, old_nelts, dst)

\* The inner loop of apr_pollset_remove, entered with i already advanced
\* past the first match: later matches lower nelts, every other entry is
\* copied to index dst.
RECURSIVE remove_rest(_, _, _, _, _, _)
remove_rest(pf, ps, descriptor, i, old_nelts, dst) ==
    IF i >= old_nelts
    THEN ps
    ELSE IF descriptor.desc = ps.query_set[i + 1].desc
    THEN remove_rest(pf, [ps EXCEPT !.nelts = @ - 1],
                     descriptor, i + 1, old_nelts, dst)
    ELSE remove_rest(pf,
                     [ps EXCEPT
                        !.pollset = IF HAVE_POLL(pf)
                                    THEN [@ EXCEPT ![dst + 1] = ps.pollset[i + 1]]
                                    ELSE @,
                        !.query_set[dst + 1] = ps.query_set[i + 1]],
                     descriptor, i + 1, old_nelts, dst)

\* Shadow-state update of the bitmap backend after the compaction.
remove_fdsets(ps, fd) ==
    [ps EXCEPT
        !.readset = @ \ {fd},
        !.writeset = @ \ {fd},
        !.exceptset = @ \ {fd},
        !.maxfd = IF fd = @ /\ @ > 0 THEN @ - 1 ELSE @]

\* Index of the first entry with the descriptor's identity, or -1.
first_match(ps, descriptor) ==
    LET m == {i \in 0..(ps.nelts - 1) :
                 descriptor.desc = ps.query_set[i + 1].desc} IN
    IF m = {} THEN -1 ELSE CHOOSE i \in m : \A k \in m : i <= k

\* apr_pollset_remove updating the bitmap shadow state before it knows
\* whether an entry matches.
apr_pollset_remove_eager(pf, ps, descriptor) ==
    LET i == first_match(ps, descriptor) IN
    IF i < 0
    THEN [rv |-> "APR_NOTFOUND",
          pollset |-> IF HAVE_POLL(pf)
                      THEN ps
                      ELSE remove_fdsets(ps, Fd(descriptor.desc))]
    ELSE LET c == remove_rest(pf, [ps EXCEPT !.nelts = @ - 1],
                              descriptor, i + 1, ps.nelts, i) IN
         [rv |-> "APR_SUCCESS",
          pollset |-> IF HAVE_POLL(pf)
                      THEN c
                      ELSE remove_fdsets(c, Fd(descriptor.desc))]

apr_pollset_remove(pf, ps, descriptor) ==
    LET i == first_match(ps, descriptor) IN
    IF i < 0
    THEN [rv |-> "APR_NOTFOUND", pollset |-> ps]
    ELSE LET c == remove_rest(pf, [ps EXCEPT !.nelts = @ - 1],
                              descriptor, i + 1, ps.nelts, i) IN
         [rv |-> "APR_SUCCESS",
          pollset |-> IF HAVE_POLL(pf)
                      THEN c
                      ELSE remove_fdsets(c, Fd(descriptor.desc))]

\* ---------------------------------------------------------------------------
\* Native wait primitives.  ready[fd] is the condition of handle fd while the
\* call waits; err is "none" or the errno the call fails with.
\* ---------------------------------------------------------------------------

\* The record kept of a native wait: return value, errno, and the outputs.
NoNative == [rv |-> 0, errno |-> "none", revents |-> <<>>,
             readset |-> {}, writeset |-> {}, exceptset |-> {}]

Idle == [fd \in NativeFds |-> {}]

\* The environments of one wait on the handles in fds: a failure, or some
\* readiness of those handles.
WaitOutcomes(fds) ==
    {[err |-> e, ready |-> Idle] : e \in Errnos} \cup
    {[err |-> "none", ready |-> [fd \in NativeFds |-> IF fd \in fds THEN r[fd] ELSE {}]] :
        r \in [fds -> ReadyChoices]}

\* poll(fds, nfds, timeout): revents of entry i holds the requested events
\* that are ready plus POLLERR, POLLHUP, POLLNVAL when they are; the return
\* value counts the entries with nonzero revents.  timeout is in
\* milliseconds, negative blocks until something is ready.
poll(fds, nfds, timeout, w) ==
    LET revents == [i \in 1..nfds |->
                       w.ready[fds[i].fd] \cap
                       (fds[i].events \cup {"POLLERR", "POLLHUP", "POLLNVAL"})]
        n == Cardinality({i \in 1..nfds : revents[i] # {}}) IN
    IF w.err # "none"
    THEN [NoNative EXCEPT !.rv = -1, !.errno = w.err]
    ELSE [NoNative EXCEPT !.rv = n, !.revents = revents]

poll_returns(fds, nfds, timeout, w) ==
    \/ w.err # "none"
    \/ timeout >= 0
    \/ poll(fds, nfds, timeout, w).rv > 0

read_ready(c) == c \cap {"POLLIN", "POLLHUP"} # {}

write_ready(c) == "POLLOUT" \in c

except_ready(c) == "POLLPRI" \in c

\* select(nfds, readfds, writefds, exceptfds, tvptr): the three sets are
\* rewritten in place to the ready handles below nfds; the return value is
\* the total number of bits left set in the three sets.  Bits at or above
\* nfds are not examined; they are left set or cleared (keep_high).
select(nfds, rs, ws, es, w, keep_high) ==
    LET high(ss) == IF keep_high THEN {fd \in ss : fd >= nfds} ELSE {}
        r == {fd \in rs : fd < nfds /\ read_ready(w.ready[fd])}
        wr == {fd \in ws : fd < nfds /\ write_ready(w.ready[fd])}
        e == {fd \in es : fd < nfds /\ except_ready(w.ready[fd])} IN
    IF w.err # "none"
    THEN [NoNative EXCEPT !.rv = -1, !.errno = w.err,
                          !.readset = rs, !.writeset = ws, !.exceptset = es]
    ELSE [NoNative EXCEPT
             !.rv = Cardinality(r) + Cardinality(wr) + Cardinality(e),
             !.readset = r \cup high(rs),
             !.writeset = wr \cup high(ws),
             !.exceptset = e \cup high(es)]

\* tvptr == NULL blocks until something is ready.
select_returns(nfds, rs, ws, es, tv_null, w) ==
    \/ w.err # "none"
    \/ ~tv_null
    \/ select(nfds, rs, ws, es, w, FALSE).rv > 0

\* ---------------------------------------------------------------------------
\* Timeout conversion
\* ---------------------------------------------------------------------------

\* event-list backend: microseconds to the milliseconds poll() takes
poll_timeout(timeout) == IF timeout > 0 THEN timeout \div 1000 ELSE timeout

\* bitmap backend: NULL for a negative timeout, else a struct timeval
select_timeout(timeout) ==
    IF timeout < 0
    THEN [null |-> TRUE, tv_sec |-> 0, tv_usec |-> 0]
    ELSE [null |-> FALSE,
          tv_sec |-> timeout \div 1000000,
          tv_usec |-> timeout % 1000000]

\* ---------------------------------------------------------------------------
\* apr_pollset_poll
\* ---------------------------------------------------------------------------

\* The result loop writing each ready entry at its own index (no compaction).
RECURSIVE poll_results_in_place(_, _, _, _)
poll_results_in_place(ps, revents, i, j) ==
    IF i >= ps.nelts
    THEN [pollset |-> ps, j |-> j]
    ELSE IF revents[i + 1] # {}
    THEN poll_results_in_place(
             [ps EXCEPT !.result_set[i + 1] =
                 [ps.query_set[i + 1] EXCEPT
                     !.rtnevents = get_revent(revents[i + 1])]],
             revents, i + 1, j + 1)
    ELSE poll_results_in_place(ps, revents, i + 1, j)

\* The result loop of the event-list backend from index i with j results.
RECURSIVE poll_results(_, _, _, _)
poll_results(ps, revents, i, j) ==
    IF i >= ps.nelts
    THEN [pollset |-> ps, j |-> j]
    ELSE IF revents[i + 1] # {}
    THEN poll_results(
             [ps EXCEPT !.result_set[j + 1] =
                 [ps.query_set[i + 1] EXCEPT
                     !.rtnevents = get_revent(revents[i + 1])]],
             revents, i + 1, j + 1)
    ELSE poll_results(ps, revents, i + 1, j)

\* The result loop of the bitmap backend; it returns APR_EBADF from inside the
\* loop on a file entry under WIN32.
RECURSIVE select_results(_, _, _, _, _)
select_results(pf, ps, nat, i, j) ==
    IF i >= ps.nelts
    THEN [rv |-> "APR_SUCCESS", pollset |-> ps, j |-> j]
    ELSE IF ps.query_set[i + 1].desc_type # "APR_POLL_SOCKET" /\ WIN32(pf)
    THEN [rv |-> "APR_EBADF", pollset |-> ps, j |-> j]
    ELSE LET fd == Fd(ps.query_set[i + 1].desc)
             isset == [rd |-> fd \in nat.readset,
                       wr |-> fd \in nat.writeset,
                       ex |-> fd \in nat.exceptset] IN
         IF isset.rd \/ isset.wr \/ isset.ex
         THEN select_results(pf,
                  [ps EXCEPT !.result_set[j + 1] =
                      [ps.query_set[i + 1] EXCEPT
                          !.rtnevents = fdset_result(isset)]],
                  nat, i + 1, j + 1)
         ELSE select_results(pf, ps, nat, i + 1, j)

\* apr_pollset_poll treating an interrupted wait as a timeout.
apr_pollset_poll_eintr(pf, ps, nat) ==
    LET base == [rv |-> "APR_SUCCESS", pollset |-> ps, num |-> nat.rv,
                 descriptors |-> "unset", j |-> 0, waits |-> 1] IN
    IF nat.rv < 0 /\ nat.errno # "EINTR"
    THEN [base EXCEPT !.rv = nat.errno]
    ELSE IF nat.rv <= 0
    THEN [base EXCEPT !.rv = "APR_TIMEUP"]
    ELSE IF HAVE_POLL(pf)
    THEN LET r == poll_results(ps, nat.revents, 0, 0) IN
         [base EXCEPT !.pollset = r.pollset, !.j = r.j,
                      !.descriptors = "result_set"]
    ELSE LET r == select_results(pf, ps, nat, 0, 0) IN
         [base EXCEPT !.rv = r.rv, !.pollset = r.pollset, !.j = r.j]

\* apr_pollset_poll of the bitmap backend handing the pollset's own fd_sets
\* to select() instead of copies.
apr_pollset_poll_nocopy(pf, ps, nat) ==
    LET own == IF HAVE_POLL(pf)
               THEN ps
               ELSE [ps EXCEPT !.readset = nat.readset,
                               !.writeset = nat.writeset,
                               !.exceptset = nat.exceptset]
        base == [rv |-> "APR_SUCCESS", pollset |-> own, num |-> nat.rv,
                 descriptors |-> "unset", j |-> 0, waits |-> 1] IN
    IF nat.rv < 0
    THEN [base EXCEPT !.rv = nat.errno]
    ELSE IF nat.rv = 0
    THEN [base EXCEPT !.rv = "APR_TIMEUP"]
    ELSE IF HAVE_POLL(pf)
    THEN LET r == poll_results(own, nat.revents, 0, 0) IN
         [base EXCEPT !.pollset = r.pollset, !.j = r.j,
                      !.descriptors = "result_set"]
    ELSE LET r == select_results(pf, own, nat, 0, 0) IN
         [base EXCEPT !.rv = r.rv, !.pollset = r.pollset, !.j = r.j]

\* The call after its native wait returned nat.  descriptors is the caller's
\* pointer variable, "unset" before the call.
apr_pollset_poll(pf, ps, nat) ==
    LET base == [rv |-> "APR_SUCCESS", pollset |-> ps, num |-> nat.rv,
                 descriptors |-> "unset", j |-> 0, waits |-> 1] IN
    IF nat.rv < 0
    THEN [base EXCEPT !.rv = nat.errno]
    ELSE IF nat.rv = 0
    THEN [base EXCEPT !.rv = "APR_TIMEUP"]
    ELSE IF HAVE_POLL(pf)
    THEN LET r == poll_results(ps, nat.revents, 0, 0) IN
         [base EXCEPT !.pollset = r.pollset, !.j = r.j,
                      !.descriptors = "result_set"]
    ELSE LET r == select_results(pf, ps, nat, 0, 0) IN
         [base EXCEPT !.rv = r.rv, !.pollset = r.pollset, !.j = r.j]

\* The native wait apr_pollset_poll performs for timeout in environment w.
pollset_wait(pf, ps, timeout, w, keep_high) ==
    IF HAVE_POLL(pf)
    THEN poll(ps.pollset, ps.nelts, poll_timeout(timeout), w)
    ELSE select(ps.maxfd + 1, ps.readset, ps.writeset, ps.exceptset,
                w, keep_high)

pollset_wait_returns(pf, ps, timeout, w) ==
    IF HAVE_POLL(pf)
    THEN poll_returns(ps.pollset, ps.nelts, poll_timeout(timeout), w)
    ELSE select_returns(ps.maxfd + 1, ps.readset, ps.writeset, ps.exceptset,
                        select_timeout(timeout).null, w)

\* ---------------------------------------------------------------------------
\* apr_poll
\* ---------------------------------------------------------------------------

\* Event-list backend: the struct pollfd array built from the caller's
\* records.  (It is tmp_pollset or pool memory, by num; both are used alike.)
apr_poll_pollfds(aprset, n) ==
    [i \in 1..n |-> [fd |-> Fd(aprset[i].desc),
                     events |-> get_event(aprset[i].reqevents)]]

\* apr_poll_poll storing the translated result in reqevents as well.
apr_poll_poll_reqevents(aprset, n, nat, revents) ==
    [rv |-> IF nat.rv < 0 THEN nat.errno
            ELSE IF nat.rv = 0 THEN "APR_TIMEUP" ELSE "APR_SUCCESS",
     nsds |-> nat.rv,
     waits |-> 1,
     aprset |-> [i \in 1..n |->
                    [aprset[i] EXCEPT !.rtnevents = get_revent(revents[i]),
                                      !.reqevents = get_revent(revents[i])]]]

\* Event-list backend after the native wait returned nat.  revents is the
\* content of the revents fields when the write-back loop runs: what poll()
\* stored, or what the never-initialised array held if poll() failed.
apr_poll_poll(aprset, n, nat, revents) ==
    [rv |-> IF nat.rv < 0 THEN nat.errno
            ELSE IF nat.rv = 0 THEN "APR_TIMEUP" ELSE "APR_SUCCESS",
     nsds |-> nat.rv,
     waits |-> 1,
     aprset |-> [i \in 1..n |->
                    [aprset[i] EXCEPT !.rtnevents = get_revent(revents[i])]]]

\* apr_poll_rejected looking at the kind of the first record only.
apr_poll_rejected_first(pf, aprset, n) ==
    IF n > 0 /\ aprset[1].desc_type = "APR_POLL_FILE" /\ WIN32(pf)
    THEN 0 ELSE -1

\* Bitmap backend: index of the first record the first loop returns
\* APR_EBADF on (a file under WIN32), or -1.
apr_poll_rejected(pf, aprset, n) ==
    LET bad == {i \in 0..(n - 1) :
                   aprset[i + 1].desc_type = "APR_POLL_FILE" /\ WIN32(pf)} IN
    IF bad = {} THEN -1 ELSE CHOOSE i \in bad : \A k \in bad : i <= k

\* Bitmap backend: the return from inside the first loop; nothing has been
\* waited for or written.
apr_poll_reject(aprset, nsds) ==
    [rv |-> "APR_EBADF", nsds |-> nsds, waits |-> 0, aprset |-> aprset]

\* Bitmap backend: the three fd_sets and maxfd after the first loop.
apr_poll_fdsets(aprset, n) ==
    LET fds == {Fd(aprset[i].desc) : i \in 1..n} IN
    [readset |-> {Fd(aprset[i].desc) : i \in
                     {k \in 1..n : fdset_request(aprset[k].reqevents).rd}},
     writeset |-> {Fd(aprset[i].desc) : i \in
                     {k \in 1..n : fdset_request(aprset[k].reqevents).wr}},
     exceptset |-> {Fd(aprset[i].desc) : i \in
                     {k \in 1..n : fdset_request(aprset[k].reqevents).ex}},
     maxfd |-> IF fds = {} THEN -1
               ELSE CHOOSE m \in fds : \A fd \in fds : fd <= m]

\* Bitmap backend: the write-back loop from index i.
RECURSIVE apr_poll_writeback(_, _, _, _, _)
apr_poll_writeback(pf, aprset, n, nat, i) ==
    IF i >= n
    THEN [rv |-> "APR_SUCCESS", aprset |-> aprset]
    ELSE IF aprset[i + 1].desc_type # "APR_POLL_SOCKET" /\ WIN32(pf)
    THEN [rv |-> "APR_EBADF", aprset |-> aprset]
    ELSE LET fd == Fd(aprset[i + 1].desc)
             isset == [rd |-> fd \in nat.readset,
                       wr |-> fd \in nat.writeset,
                       ex |-> fd \in nat.exceptset] IN
         apr_poll_writeback(pf,
             [aprset EXCEPT ![i + 1].rtnevents = fdset_result(isset)],
             n, nat, i + 1)

\* Bitmap backend after the native wait returned nat.
apr_poll_select(pf, aprset, n, nat) ==
    IF nat.rv = 0
    THEN [rv |-> "APR_TIMEUP", nsds |-> nat.rv, waits |-> 1, aprset |-> aprset]
    ELSE IF nat.rv < 0
    THEN [rv |-> nat.errno, nsds |-> nat.rv, waits |-> 1, aprset |-> aprset]
    ELSE LET r == apr_poll_writeback(pf, aprset, n, nat, 0) IN
         [rv |-> r.rv, nsds |-> nat.rv, waits |-> 1, aprset |-> r.aprset]

\* The native wait apr_poll performs.
apr_poll_wait(pf, aprset, n, timeout, w) ==
    IF HAVE_POLL(pf)
    THEN poll(apr_poll_pollfds(aprset, n), n, poll_timeout(timeout), w)
    ELSE LET s == apr_poll_fdsets(aprset, n) IN
         select(s.maxfd + 1, s.readset, s.writeset, s.exceptset, w, FALSE)

apr_poll_wait_returns(pf, aprset, n, timeout, w) ==
    IF HAVE_POLL(pf)
    THEN poll_returns(apr_poll_pollfds(aprset, n), n, poll_timeout(timeout), w)
    ELSE LET s == apr_poll_fdsets(aprset, n) IN
         select_returns(s.maxfd + 1, s.readset, s.writeset, s.exceptset,
                        select_timeout(timeout).null, w)

VARIABLES
    platform,      \* build variant
    pollset,       \* the apr_pollset_t
    op,            \* the call that produced this state
    arg,           \* its descriptor argument
    status,        \* its apr_status_t
    num,           \* *num / *nsds as left by the call
    descriptors,   \* *descriptors as left by the call
    nres,          \* value of j when apr_pollset_poll returned
    waits,         \* native waits performed by the call
    native,        \* what the native wait returned
    removed,       \* objects removed successfully and not added since
    polls,         \* apr_pollset_poll calls made on the pollset
    aprset,        \* the caller's array handed to apr_poll
    xlate,         \* an event mask on its way through the translators
    conv,          \* a caller timeout on its way to the native wait
    thd,           \* an apr_thread_t and the threads working on it
    control        \* an apr_thread_once_t and the threads calling on it

\* The state of the polling engine.
pollvars == <<platform, pollset, op, arg, status, num, descriptors,
              nres, waits, native, removed, polls, aprset, xlate, conv>>

vars == <<platform, pollset, op, arg, status, num, descriptors,
          nres, waits, native, removed, polls, aprset, xlate, conv,
          thd, control>>

\* xlate when no mask is being translated.
NoXlate == [stage |-> "none", events |-> {}, native |-> {},
            fdsets |-> fdset_request({}), result |-> {}]

\* conv when no timeout is being converted.
NoConv == [stage |-> "none", call |-> "none", timeout |-> 0,
           ms |-> 0, tv |-> select_timeout(0)]

\* thd when no thread has been created.
NoThread == [created |-> FALSE]

\* control when no apr_thread_once_t has been allocated.
NoControl == [allocated |-> FALSE]

Init ==
    /\ platform \in Platforms
    /\ \E size \in 0..MaxAlloc : pollset = apr_pollset_create(platform, size)
    /\ op = "apr_pollset_create"
    /\ arg = Uninit
    /\ status = "APR_SUCCESS"
    /\ num = 0
    /\ descriptors = "unset"
    /\ nres = 0
    /\ waits = 0
    /\ native = NoNative
    /\ removed = {}
    /\ polls = 0
    /\ aprset = <<>>
    /\ xlate = NoXlate
    /\ conv = NoConv
    /\ thd = NoThread
    /\ control = NoControl

\* The registry is built and edited before the waits on it begin.
AddFrom(records) ==
    /\ aprset = <<>>
    /\ polls = 0
    /\ \E descriptor \in records :
       \E r \in {apr_pollset_add(platform, pollset, descriptor)} :
        /\ pollset' = r.pollset
        /\ op' = "apr_pollset_add"
        /\ arg' = descriptor
        /\ status' = r.rv
        /\ removed' = IF r.rv = "APR_SUCCESS"
                      THEN removed \ {descriptor.desc} ELSE removed
        /\ waits' = 0
        /\ native' = NoNative
        /\ UNCHANGED <<platform, num, descriptors, nres, polls, aprset, xlate, conv, thd, control>>

Remove ==
    /\ aprset = <<>>
    /\ polls = 0
    /\ \E descriptor \in RemoveRecords :
       \E r \in {apr_pollset_remove(platform, pollset, descriptor)} :
        /\ pollset' = r.pollset
        /\ op' = "apr_pollset_remove"
        /\ arg' = descriptor
        /\ status' = r.rv
        /\ removed' = IF r.rv = "APR_SUCCESS"
                      THEN removed \cup {descriptor.desc} ELSE removed
        /\ waits' = 0
        /\ native' = NoNative
        /\ UNCHANGED <<platform, num, descriptors, nres, polls, aprset, xlate, conv, thd, control>>

\* Handles the pollset's native wait looks at.
watched(pf, ps) ==
    IF HAVE_POLL(pf)
    THEN {ps.pollset[i].fd : i \in 1..ps.nelts}
    ELSE ps.readset \cup ps.writeset \cup ps.exceptset

PollsetPoll ==
    /\ aprset = <<>>
    /\ polls < MaxPolls
    /\ \E w \in WaitOutcomes(watched(platform, pollset)) :
       \E keep_high \in {FALSE} \cup {watched(platform, pollset) # {}
                                    /\ \E fd \in watched(platform, pollset) : fd > pollset.maxfd} :
       \E nat \in {pollset_wait(platform, pollset, 0, w, keep_high)} :
       \E r \in {apr_pollset_poll(platform, pollset, nat)} :
        /\ TRUE \in {pollset_wait_returns(platform, pollset, timeout, w) :
                        timeout \in Timeouts}
        /\ pollset' = r.pollset
        /\ op' = "apr_pollset_poll"
        /\ arg' = Uninit
        /\ status' = r.rv
        /\ num' = r.num
        /\ descriptors' = r.descriptors
        /\ nres' = r.j
        /\ waits' = r.waits
        /\ native' = nat
        /\ polls' = polls + 1
        /\ UNCHANGED <<platform, removed, aprset, xlate, conv, thd, control>>

\* Caller arrays for apr_poll: up to MaxNum records whose rtnevents still
\* hold what an earlier use left there.
PollArrays ==
    UNION {[1..n -> {[r EXCEPT !.rtnevents = StaleEvents] : r \in InputRecords}] :
              n \in 1..MaxNum}

InitOnce ==
    /\ platform \in Platforms
    /\ pollset = apr_pollset_create(platform, 0)
    /\ op = "none"
    /\ arg = Uninit
    /\ status = "APR_SUCCESS"
    /\ num = 0
    /\ descriptors = "unset"
    /\ nres = 0
    /\ waits = 0
    /\ native = NoNative
    /\ removed = {}
    /\ polls = 0
    /\ aprset \in PollArrays
    /\ xlate = NoXlate
    /\ conv = NoConv
    /\ thd = NoThread
    /\ control = NoControl

\* apr_poll returning APR_EBADF from its first loop.
PollRejected ==
    /\ aprset # <<>>
    /\ ~HAVE_POLL(platform)
    /\ apr_poll_rejected(platform, aprset, Len(aprset)) >= 0
    /\ \E r \in {apr_poll_reject(aprset, num)} :
        /\ aprset' = r.aprset
        /\ op' = "apr_poll"
        /\ status' = r.rv
        /\ num' = r.nsds
        /\ waits' = r.waits
        /\ native' = NoNative
    /\ UNCHANGED <<platform, pollset, arg, descriptors, nres, removed, polls, xlate, conv, thd, control>>

\* apr_poll reaching its native wait.
Poll ==
    /\ aprset # <<>>
    /\ HAVE_POLL(platform) \/ apr_poll_rejected(platform, aprset, Len(aprset)) < 0
    /\ \E w \in WaitOutcomes({Fd(aprset[i].desc) : i \in 1..Len(aprset)}) :
       \E garbage \in IF w.err = "none" \/ ~HAVE_POLL(platform)
                      THEN {[i \in 1..Len(aprset) |-> {}]}
                      ELSE [1..Len(aprset) -> GarbageChoices] :
       \E nat \in {apr_poll_wait(platform, aprset, Len(aprset), 0, w)} :
       \E r \in {IF HAVE_POLL(platform)
                 THEN apr_poll_poll(aprset, Len(aprset), nat,
                                    IF nat.rv < 0 THEN garbage ELSE nat.revents)
                 ELSE apr_poll_select(platform, aprset, Len(aprset), nat)} :
        /\ TRUE \in {apr_poll_wait_returns(platform, aprset, Len(aprset), timeout, w) :
                        timeout \in Timeouts}
        /\ aprset' = r.aprset
        /\ op' = "apr_poll"
        /\ status' = r.rv
        /\ num' = r.nsds
        /\ waits' = r.waits
        /\ native' = nat
        /\ UNCHANGED <<platform, pollset, arg, descriptors, nres, removed, polls, xlate, conv, thd, control>>

Add == AddFrom(InputRecords)

AddPolled == AddFrom(PollRecords)

Next == Add \/ Remove

NextPoll == AddPolled \/ Remove \/ PollsetPoll

Spec == Init /\ [][Next]_vars

SpecPoll == Init /\ [][NextPoll]_vars

NextOnce == Poll \/ PollRejected

SpecOnce == InitOnce /\ [][NextOnce]_vars

\* Every waiting call: a run works on a pollset or on an apr_poll array.
InitWait == Init \/ InitOnce

NextWait == NextPoll \/ NextOnce

SpecWait == InitWait /\ [][NextWait]_vars

\* A portable event mask translated to the backend's native request form and
\* the native value translated back.
InitXlate ==
    /\ platform \in Platforms
    /\ pollset = apr_pollset_create(platform, 0)
    /\ op = "none"
    /\ arg = Uninit
    /\ status = "APR_SUCCESS"
    /\ num = 0
    /\ descriptors = "unset"
    /\ nres = 0
    /\ waits = 0
    /\ native = NoNative
    /\ removed = {}
    /\ polls = 0
    /\ aprset = <<>>
    /\ \E events \in SUBSET AprFlags :
           xlate = [NoXlate EXCEPT !.stage = "portable", !.events = events]
    /\ conv = NoConv
    /\ thd = NoThread
    /\ control = NoControl

TranslateRequest ==
    /\ xlate.stage = "portable"
    /\ xlate' = IF HAVE_POLL(platform)
                THEN [xlate EXCEPT !.stage = "native",
                                   !.native = get_event(xlate.events)]
                ELSE [xlate EXCEPT !.stage = "native",
                                   !.fdsets = fdset_request(xlate.events)]
    /\ UNCHANGED <<platform, pollset, op, arg, status, num, descriptors,
                   nres, waits, native, removed, polls, aprset, conv, thd, control>>

TranslateResult ==
    /\ xlate.stage = "native"
    /\ xlate' = IF HAVE_POLL(platform)
                THEN [xlate EXCEPT !.stage = "result",
                                   !.result = get_revent(xlate.native)]
                ELSE [xlate EXCEPT !.stage = "result",
                                   !.result = fdset_result(xlate.fdsets)]
    /\ UNCHANGED <<platform, pollset, op, arg, status, num, descriptors,
                   nres, waits, native, removed, polls, aprset, conv, thd, control>>

NextXlate == TranslateRequest \/ TranslateResult

SpecXlate == InitXlate /\ [][NextXlate]_vars

\* Caller timeouts for the conversion alone: both signs, zero, and the values
\* around one millisecond and one second.
TimeoutInputs == {-1000001, -1000, -1, 0, 1, 500, 999, 1000, 1001, 1999, 2000,
                  999999, 1000000, 1000001, 1500000, 2000000}

\* A call of apr_poll or apr_pollset_poll with its timeout argument, before
\* the conversion at the head of the function.
InitTimeout ==
    /\ platform \in Platforms
    /\ pollset = apr_pollset_create(platform, 0)
    /\ op = "none"
    /\ arg = Uninit
    /\ status = "APR_SUCCESS"
    /\ num = 0
    /\ descriptors = "unset"
    /\ nres = 0
    /\ waits = 0
    /\ native = NoNative
    /\ removed = {}
    /\ polls = 0
    /\ aprset = <<>>
    /\ xlate = NoXlate
    /\ \E call \in {"apr_poll", "apr_pollset_poll"} :
       \E timeout \in TimeoutInputs :
           conv = [NoConv EXCEPT !.stage = "caller", !.call = call,
                                 !.timeout = timeout]
    /\ thd = NoThread
    /\ control = NoControl

\* The conversion and the hand-over to the native wait: the timeout
\* argument of poll() in milliseconds, or the tvptr argument of select().
ConvertTimeout ==
    /\ conv.stage = "caller"
    /\ conv' = IF HAVE_POLL(platform)
               THEN [conv EXCEPT !.stage = "native",
                                 !.ms = poll_timeout(conv.timeout)]
               ELSE [conv EXCEPT !.stage = "native",
                                 !.tv = select_timeout(conv.timeout)]
    /\ UNCHANGED <<platform, pollset, op, arg, status, num, descriptors,
                   nres, waits, native, removed, polls, aprset, xlate, thd, control>>

NextTimeout == ConvertTimeout

SpecTimeout == InitTimeout /\ [][NextTimeout]_vars

\* Whether the native wait, given the converted timeout, blocks until a
\* handle is ready: poll() with a negative timeout, select() with a null
\* tvptr.
NativeBlocks ==
    IF HAVE_POLL(platform) THEN conv.ms < 0 ELSE conv.tv.null

\* The longest the native wait lasts when it does not block, in microseconds.
NativeDuration ==
    IF HAVE_POLL(platform)
    THEN conv.ms * 1000
    ELSE conv.tv.tv_sec * 1000000 + conv.tv.tv_usec

\* ---------------------------------------------------------------------------
\* threadproc/netware/thread.c
\* ---------------------------------------------------------------------------

\* The polling engine while the thread functions are looked at.
PollUnused ==
    /\ platform = "poll"
    /\ pollset = apr_pollset_create("poll", 0)
    /\ op = "none"
    /\ arg = Uninit
    /\ status = "APR_SUCCESS"
    /\ num = 0
    /\ descriptors = "unset"
    /\ nres = 0
    /\ waits = 0
    /\ native = NoNative
    /\ removed = {}
    /\ polls = 0
    /\ aprset = <<>>
    /\ xlate = NoXlate
    /\ conv = NoConv

\* Threads that call apr_thread_once on the one control object.
OnceThreads == {1, 2, 3}

\* Largest number of apr_thread_once calls one thread makes.
MaxOnceCalls == 2

\* atomic_xchg reading the cell without storing the new value.
atomic_xchg_load(mem, val) == [old |-> mem, mem |-> mem]

\* atomic_xchg(&mem, val): stores val and returns what the cell held, in one
\* indivisible step.
atomic_xchg(mem, val) == [old |-> mem, mem |-> val]

\* apr_thread_once_init: the control object comes zeroed from apr_pcalloc.
\* invoked counts the calls of func; seen_zero lists, in order, the threads
\* whose exchange returned 0; invokers lists the threads that called func.
apr_thread_once_init ==
    [allocated |-> TRUE,
     value |-> 0,
     invoked |-> 0,
     seen_zero |-> <<>>,
     invokers |-> <<>>,
     pc |-> [t \in OnceThreads |-> "idle"],
     calls |-> [t \in OnceThreads |-> 0]]

InitControl ==
    /\ PollUnused
    /\ thd = NoThread
    /\ control = apr_thread_once_init

\* A thread enters apr_thread_once.
OnceCall(t) ==
    /\ control.pc[t] = "idle"
    /\ control.calls[t] < MaxOnceCalls
    /\ control' = [control EXCEPT !.pc[t] = "xchg"]
    /\ UNCHANGED <<pollvars, thd>>

\* if (!atomic_xchg(&control->value, 1))
OnceXchg(t) ==
    /\ control.pc[t] = "xchg"
    /\ \E r \in {atomic_xchg(control.value, 1)} :
          control' = [control EXCEPT
              !.value = r.mem,
              !.seen_zero = IF r.old = 0 THEN Append(@, t) ELSE @,
              !.pc[t] = IF r.old = 0 THEN "func" ELSE "return"]
    /\ UNCHANGED <<pollvars, thd>>

\* func();
OnceFunc(t) ==
    /\ control.pc[t] = "func"
    /\ control' = [control EXCEPT
           !.invoked = @ + 1,
           !.invokers = Append(@, t),
           !.pc[t] = "return"]
    /\ UNCHANGED <<pollvars, thd>>

\* return APR_SUCCESS;
OnceReturn(t) ==
    /\ control.pc[t] = "return"
    /\ control' = [control EXCEPT !.pc[t] = "idle", !.calls[t] = @ + 1]
    /\ UNCHANGED <<pollvars, thd>>

NextControl ==
    \E t \in OnceThreads :
        OnceCall(t) \/ OnceXchg(t) \/ OnceFunc(t) \/ OnceReturn(t)

SpecControl == InitControl /\ [][NextControl]_vars

\* apr_thread_create returning APR_SUCCESS with attr->detach = detach: the
\* apr_thread_t with its own pool, and the new thread about to run
\* dummy_worker.  destroys counts the apr_pool_destroy(thd->pool) calls; worker
\* is the position of the created thread, join and dodetach those of the
\* threads calling apr_thread_join and apr_thread_detach.
apr_thread_create(detach) ==
    [created |-> TRUE,
     detached |-> detach,
     os_detached |-> detach,
     exitval |-> -1,
     destroys |-> 0,
     joined |-> FALSE,
     worker |-> "func",
     join |-> "idle",
     join_rv |-> "none",
     dodetach |-> "idle",
     detach_rv |-> "none"]

InitThread ==
    /\ PollUnused
    /\ control = NoControl
    /\ \E detach \in BOOLEAN : thd = apr_thread_create(detach)

\* dummy_worker: thd->func returned.
WorkerReturn ==
    /\ thd.worker = "func"
    /\ thd' = [thd EXCEPT !.worker = "dummy_test"]
    /\ UNCHANGED <<pollvars, control>>

\* dummy_worker: if (thd->detached)
WorkerTest ==
    /\ thd.worker = "dummy_test"
    /\ thd' = [thd EXCEPT !.worker = IF thd.detached THEN "dummy_destroy"
                                     ELSE "terminated"]
    /\ UNCHANGED <<pollvars, control>>

\* dummy_worker: apr_pool_destroy(thd->pool); return ret;
WorkerDestroy ==
    /\ thd.worker = "dummy_destroy"
    /\ thd' = [thd EXCEPT !.destroys = @ + 1, !.worker = "terminated"]
    /\ UNCHANGED <<pollvars, control>>

\* apr_thread_exit called from thd->func: thd->exitval = retval;
ExitCall ==
    /\ thd.worker = "func"
    /\ \E retval \in {0, 1} :
          thd' = [thd EXCEPT !.exitval = retval, !.worker = "exit_test"]
    /\ UNCHANGED <<pollvars, control>>

\* apr_thread_exit: if (thd->detached)
ExitTest ==
    /\ thd.worker = "exit_test"
    /\ thd' = [thd EXCEPT !.worker = IF thd.detached THEN "exit_destroy"
                                     ELSE "terminated"]
    /\ UNCHANGED <<pollvars, control>>

\* apr_thread_exit: apr_pool_destroy(thd->pool); NXThreadExit(NULL);
ExitDestroy ==
    /\ thd.worker = "exit_destroy"
    /\ thd' = [thd EXCEPT !.destroys = @ + 1, !.worker = "terminated"]
    /\ UNCHANGED <<pollvars, control>>

\* apr_thread_join: if (thd->detached) return APR_EINVAL; else NXThreadJoin
JoinCall ==
    /\ thd.join = "idle"
    /\ thd' = IF thd.detached
              THEN [thd EXCEPT !.join = "returned", !.join_rv = "APR_EINVAL"]
              ELSE [thd EXCEPT !.join = "NXThreadJoin"]
    /\ UNCHANGED <<pollvars, control>>

\* NXThreadJoin returns 0 once the joinable thread has terminated.
JoinWake ==
    /\ thd.join = "NXThreadJoin"
    /\ thd.worker = "terminated"
    /\ ~thd.os_detached
    /\ ~thd.joined
    /\ thd' = [thd EXCEPT !.join = "join_destroy", !.joined = TRUE]
    /\ UNCHANGED <<pollvars, control>>

\* NXThreadJoin returns an error; apr_thread_join returns it.
JoinFail ==
    /\ thd.join = "NXThreadJoin"
    /\ thd' = [thd EXCEPT !.join = "returned", !.join_rv = "stat"]
    /\ UNCHANGED <<pollvars, control>>

\* apr_thread_join: *retval = thd->exitval; apr_pool_destroy(thd->pool);
JoinDestroy ==
    /\ thd.join = "join_destroy"
    /\ thd' = [thd EXCEPT !.destroys = @ + 1, !.join = "returned",
                          !.join_rv = "APR_SUCCESS"]
    /\ UNCHANGED <<pollvars, control>>

\* apr_thread_detach: if (thd->detached) return APR_EINVAL;
DetachCall ==
    /\ thd.dodetach = "idle"
    /\ thd' = IF thd.detached
              THEN [thd EXCEPT !.dodetach = "returned",
                               !.detach_rv = "APR_EINVAL"]
              ELSE [thd EXCEPT !.dodetach = "set"]
    /\ UNCHANGED <<pollvars, control>>

\* apr_thread_detach: thd->detached = 1; return APR_SUCCESS;
DetachSet ==
    /\ thd.dodetach = "set"
    /\ thd' = [thd EXCEPT !.detached = TRUE, !.dodetach = "returned",
                          !.detach_rv = "APR_SUCCESS"]
    /\ UNCHANGED <<pollvars, control>>

NextThread ==
    \/ WorkerReturn \/ WorkerTest \/ WorkerDestroy
    \/ ExitCall \/ ExitTest \/ ExitDestroy
    \/ JoinCall \/ JoinWake \/ JoinFail \/ JoinDestroy
    \/ DetachCall \/ DetachSet

SpecThread == InitThread /\ [][NextThread]_vars

\* ---------------------------------------------------------------------------
\* Properties
\* ---------------------------------------------------------------------------

\* The registered entries: the first nelts entries of query_set.
Registered(ps) == SubSeq(ps.query_set, 1, ps.nelts)

\* seq with every entry of identity d deleted, the others in order.
RECURSIVE Without(_, _)
Without(seq, d) ==
    IF seq = <<>> THEN <<>>
    ELSE IF Head(seq).desc = d THEN Without(Tail(seq), d)
    ELSE <<Head(seq)>> \o Without(Tail(seq), d)

\* The portable flag each native flag stands for.
FlagPairs == {<<"APR_POLLIN", "POLLIN">>, <<"APR_POLLPRI", "POLLPRI">>,
              <<"APR_POLLOUT", "POLLOUT">>, <<"APR_POLLERR", "POLLERR">>,
              <<"APR_POLLHUP", "POLLHUP">>, <<"APR_POLLNVAL", "POLLNVAL">>}

Portable(native_events) == {q[1] : q \in {r \in FlagPairs : r[2] \in native_events}}

\* What the native wait of the last call reported for the handle fd, bitmap
\* backend, in portable form.
FdResult(fd) ==
    (IF fd \in native.readset THEN {"APR_POLLIN"} ELSE {}) \cup
    (IF fd \in native.writeset THEN {"APR_POLLOUT"} ELSE {}) \cup
    (IF fd \in native.exceptset THEN {"APR_POLLERR"} ELSE {})

\* The translated native result of registered entry i of the last
\* apr_pollset_poll; empty iff the native result is zero.
EntryResult(i) ==
    IF HAVE_POLL(platform)
    THEN Portable(native.revents[i])
    ELSE FdResult(Fd(pollset.query_set[i].desc))

\* The indices of the registered entries with a nonzero native result, in
\* registration order.
RECURSIVE ReadyFrom(_)
ReadyFrom(i) ==
    IF i > pollset.nelts THEN <<>>
    ELSE IF EntryResult(i) # {} THEN <<i>> \o ReadyFrom(i + 1)
    ELSE ReadyFrom(i + 1)

\* C1: an add on a pollset with count = capacity, and no other add, fails with
\* the capacity-exceeded status, and it leaves the pollset as it was; an
\* accepted add appends the record and raises count by one, so a pollset of
\* capacity N takes exactly N of them; below capacity the only record refused
\* is the file record the WIN32 bitmap build cannot watch.
C1_CapacityExceeded ==
    [][op' = "apr_pollset_add" =>
        /\ (status' = "APR_ENOMEM") <=> (pollset.nelts = pollset.nalloc)
        /\ status' = "APR_ENOMEM" => pollset' = pollset
        /\ status' = "APR_SUCCESS" =>
              /\ pollset.nelts < pollset.nalloc
              /\ pollset'.nelts = pollset.nelts + 1
              /\ Registered(pollset') = Append(Registered(pollset), arg')
        /\ (pollset.nelts < pollset.nalloc
            /\ ~(WIN32(platform) /\ arg'.desc_type = "APR_POLL_FILE"))
              => status' = "APR_SUCCESS"
        /\ pollset'.nalloc = pollset.nalloc]_vars

\* C1 witness: the add after MaxAlloc accepted ones was refused.
C1_Witness ==
    /\ op = "apr_pollset_add"
    /\ status = "APR_ENOMEM"
    /\ pollset.nalloc = MaxAlloc
    /\ pollset.nelts = MaxAlloc

\* C2: after a successful remove of d no registered entry has d's identity.
C2_NoCopyLeft ==
    (op = "apr_pollset_remove" /\ status = "APR_SUCCESS") =>
        \A i \in 1..pollset.nelts : pollset.query_set[i].desc # arg.desc

\* C3: a successful remove of d leaves the previous registered sequence with
\* the entries matching d deleted and the others in their previous order.
C3_StableCompaction ==
    [][(op' = "apr_pollset_remove" /\ status' = "APR_SUCCESS") =>
        Registered(pollset') = Without(Registered(pollset), arg'.desc)]_vars

\* C4: a successful poll reports no descriptor that was removed and not added
\* again.
C4_RemovedNotReported ==
    (op = "apr_pollset_poll" /\ status = "APR_SUCCESS") =>
        \A k \in 1..nres : pollset.result_set[k].desc \notin removed

\* C5: after a successful poll the populated prefix of result_set is the
\* registered entries with a nonzero native result, in registration order,
\* each a copy of its query_set entry with rtnevents the translated result.
C5_ResultPrefix ==
    (op = "apr_pollset_poll" /\ status = "APR_SUCCESS") =>
        LET ready == ReadyFrom(1) IN
        /\ nres = Len(ready)
        /\ \A k \in 1..Len(ready) :
              pollset.result_set[k] =
                  [pollset.query_set[ready[k]] EXCEPT
                      !.rtnevents = EntryResult(ready[k])]

\* C5 witness: three entries registered, the first and the third ready, the
\* second not, and the poll succeeded.
C5_Witness ==
    /\ op = "apr_pollset_poll"
    /\ status = "APR_SUCCESS"
    /\ pollset.nelts = 3
    /\ ReadyFrom(1) = <<1, 3>>
    /\ pollset.query_set[1] # pollset.query_set[3]

\* C6: the count a successful poll hands back is the number of entries it
\* wrote into result_set.
C6_CountIsWritten ==
    (op = "apr_pollset_poll" /\ status = "APR_SUCCESS") => num = nres

\* The records of the array that make apr_poll return before waiting.
Unwatchable ==
    {i \in 1..Len(aprset) :
        ~HAVE_POLL(platform) /\ WIN32(platform)
        /\ aprset[i].desc_type = "APR_POLL_FILE"}

\* The status of the last call is the classification of its native return
\* value: zero a timeout, negative the errno, positive success.
Classified ==
    /\ native.rv = 0 => status = "APR_TIMEUP"
    /\ native.rv < 0 => status = native.errno /\ status \in Errnos
    /\ native.rv > 0 => status = "APR_SUCCESS"

\* C7 as stated: every apr_poll and apr_pollset_poll call performs exactly one
\* native wait and classifies its return value.
C7_ExactlyOneWait ==
    op \in {"apr_poll", "apr_pollset_poll"} => (waits = 1 /\ Classified)

\* C7 amended: a call performs at most one native wait; it performs none only
\* when apr_poll of the bitmap backend under WIN32 meets a file record, and
\* then returns APR_EBADF; otherwise it performs one and classifies its
\* return value.
C7_AtMostOneWait ==
    op \in {"apr_poll", "apr_pollset_poll"} =>
        /\ waits \in {0, 1}
        /\ waits = 0 <=> (op = "apr_poll" /\ Unwatchable # {})
        /\ waits = 0 => status = "APR_EBADF"
        /\ waits = 1 => Classified

\* C7 witness: a poll on a pollset whose wait failed with EINTR, returned as it
\* is after the one wait.
C7_Witness ==
    /\ op = "apr_pollset_poll"
    /\ pollset.nelts > 0
    /\ native.rv < 0
    /\ status = "EINTR"
    /\ waits = 1

\* C8: a remove of d from a pollset with no registered entry of d's identity
\* returns APR_NOTFOUND and leaves the whole pollset as it was.
C8_NotFoundChangesNothing ==
    [][(op' = "apr_pollset_remove"
        /\ \A i \in 1..pollset.nelts : pollset.query_set[i].desc # arg'.desc) =>
           (status' = "APR_NOTFOUND" /\ pollset' = pollset)]_vars

\* C8 witness: a remove that found nothing in a bitmap-backend pollset that
\* holds entries, set bits and a raised watermark.
C8_Witness ==
    /\ op = "apr_pollset_remove"
    /\ status = "APR_NOTFOUND"
    /\ ~HAVE_POLL(platform)
    /\ pollset.nelts > 0
    /\ pollset.readset # {}
    /\ pollset.maxfd > 0

\* C9 as stated: in each backend the round trip of a nonempty mask is the
\* mask.
C9_RoundTripExact ==
    (xlate.stage = "result" /\ xlate.events # {}) => xlate.result = xlate.events

\* C9 amended: the round trip is the mask in the event-list backend; in the
\* bitmap backend it keeps APR_POLLIN and APR_POLLOUT and gives APR_POLLERR
\* for any of APR_POLLPRI, APR_POLLERR, APR_POLLHUP, APR_POLLNVAL.
C9_RoundTrip ==
    (xlate.stage = "result" /\ xlate.events # {}) =>
        IF HAVE_POLL(platform)
        THEN xlate.result = xlate.events
        ELSE /\ xlate.result \cap {"APR_POLLIN", "APR_POLLOUT"}
                  = xlate.events \cap {"APR_POLLIN", "APR_POLLOUT"}
             /\ xlate.result \subseteq {"APR_POLLIN", "APR_POLLOUT", "APR_POLLERR"}
             /\ "APR_POLLERR" \in xlate.result <=>
                  xlate.events \cap {"APR_POLLPRI", "APR_POLLERR",
                                     "APR_POLLHUP", "APR_POLLNVAL"} # {}

\* C9 witness: all six flags through the event-list translators.
C9_Witness ==
    /\ xlate.stage = "result"
    /\ HAVE_POLL(platform)
    /\ xlate.events = AprFlags
    /\ xlate.native = NativeFlags

\* The translated native result of record i of the last apr_poll.
RecordResult(i) ==
    IF HAVE_POLL(platform)
    THEN Portable(native.revents[i])
    ELSE FdResult(Fd(aprset[i].desc))

\* C10: after a successful apr_poll every record's rtnevents is the
\* translation of its native result and the count handed back is the number
\* of records with nonempty rtnevents.
C10_CountIsReadyRecords ==
    (op = "apr_poll" /\ status = "APR_SUCCESS") =>
        /\ \A i \in 1..Len(aprset) : aprset[i].rtnevents = RecordResult(i)
        /\ num = Cardinality({i \in 1..Len(aprset) : aprset[i].rtnevents # {}})

\* A record without its rtnevents field.
Frame(r) == [desc_type |-> r.desc_type, desc |-> r.desc,
             reqevents |-> r.reqevents, client_data |-> r.client_data]

\* C11: apr_poll leaves desc_type, desc, reqevents and client_data of every
\* record of the caller's array as they were, whatever its outcome.
C11_OnlyRtneventsWritten ==
    [][op' = "apr_poll" =>
        /\ Len(aprset') = Len(aprset)
        /\ \A i \in 1..Len(aprset) : Frame(aprset'[i]) = Frame(aprset[i])]_vars

\* C11 witness: a successful apr_poll over two or more records that wrote a
\* nonempty rtnevents into one record and an empty one into another.
C11_Witness ==
    /\ op = "apr_poll"
    /\ status = "APR_SUCCESS"
    /\ \E i, k \in 1..Len(aprset) :
          /\ aprset[i].rtnevents \notin {{}, StaleEvents}
          /\ aprset[k].rtnevents = {}

\* C12 as stated: under WIN32 in the bitmap backend apr_poll over an array
\* with a file record returns APR_EBADF without a wait and without a write,
\* and every apr_pollset_add of a file record returns APR_EBADF with nelts
\* and the three fd_sets unchanged.
C12_FileRejected ==
    [][WIN32(platform) =>
        /\ (op' = "apr_poll"
             /\ \E i \in 1..Len(aprset) : aprset[i].desc_type = "APR_POLL_FILE")
              => (status' = "APR_EBADF" /\ waits' = 0 /\ aprset' = aprset)
        /\ (op' = "apr_pollset_add" /\ arg'.desc_type = "APR_POLL_FILE")
              => /\ status' = "APR_EBADF"
                 /\ pollset'.nelts = pollset.nelts
                 /\ pollset'.readset = pollset.readset
                 /\ pollset'.writeset = pollset.writeset
                 /\ pollset'.exceptset = pollset.exceptset]_vars

\* C12 amended: as C12, but apr_pollset_add of a file record returns
\* APR_EBADF only below capacity; on a full pollset it returns APR_ENOMEM.
\* Either way nelts and the three fd_sets are unchanged.
C12_FileRejectedBelowCapacity ==
    [][WIN32(platform) =>
        /\ (op' = "apr_poll"
             /\ \E i \in 1..Len(aprset) : aprset[i].desc_type = "APR_POLL_FILE")
              => (status' = "APR_EBADF" /\ waits' = 0 /\ aprset' = aprset)
        /\ (op' = "apr_pollset_add" /\ arg'.desc_type = "APR_POLL_FILE")
              => /\ status' = IF pollset.nelts < pollset.nalloc
                              THEN "APR_EBADF" ELSE "APR_ENOMEM"
                 /\ pollset'.nelts = pollset.nelts
                 /\ pollset'.readset = pollset.readset
                 /\ pollset'.writeset = pollset.writeset
                 /\ pollset'.exceptset = pollset.exceptset]_vars

\* C12 witness: under WIN32 apr_poll over a socket record followed by a file
\* record returned APR_EBADF with no wait and every rtnevents as it was.
C12_Witness ==
    /\ WIN32(platform)
    /\ op = "apr_poll"
    /\ status = "APR_EBADF"
    /\ waits = 0
    /\ Len(aprset) >= 2
    /\ aprset[1].desc_type = "APR_POLL_SOCKET"
    /\ aprset[2].desc_type = "APR_POLL_FILE"
    /\ \A i \in 1..Len(aprset) : aprset[i].rtnevents = StaleEvents

\* C13: the timeout handed to the native wait keeps the caller's meaning: a
\* negative timeout blocks, zero does not wait, and a positive timeout gives a
\* bounded wait of positive duration, timeout/1000 milliseconds truncated in
\* the event-list backend and the same microseconds in the bitmap backend.
C13_TimeoutMeaningKept ==
    conv.stage = "native" =>
        /\ conv.timeout < 0 => NativeBlocks
        /\ conv.timeout = 0 => (~NativeBlocks /\ NativeDuration = 0)
        /\ conv.timeout > 0 =>
              /\ ~NativeBlocks
              /\ NativeDuration > 0
              /\ IF HAVE_POLL(platform)
                 THEN conv.ms = conv.timeout \div 1000
                 ELSE NativeDuration = conv.timeout

\* C14: count stays within 0..capacity and capacity stays what
\* apr_pollset_create set it to, through every add, remove and poll.
C14_CountWithinCapacity ==
    /\ [](0 <= pollset.nelts /\ pollset.nelts <= pollset.nalloc)
    /\ [][pollset'.nalloc = pollset.nalloc]_vars

\* C14 witness: a poll on a pollset of capacity MaxAlloc that was filled
\* (every slot written) and then emptied by removes.
C14_Witness ==
    /\ op = "apr_pollset_poll"
    /\ pollset.nalloc = MaxAlloc
    /\ pollset.nelts = 0
    /\ removed # {}
    /\ \A i \in 1..MaxAlloc : pollset.query_set[i] # Uninit

\* Number of entries of seq with identity d.
Matches(seq, d) == Cardinality({i \in 1..Len(seq) : seq[i].desc = d})

\* C15: a successful remove of d lowers count by the number of registered
\* entries of d's identity.
C15_CountLoweredPerMatch ==
    [][(op' = "apr_pollset_remove" /\ status' = "APR_SUCCESS") =>
        pollset'.nelts =
            pollset.nelts - Matches(Registered(pollset), arg'.desc)]_vars

\* C15 witness: a pollset of capacity 2 that held two differently tagged
\* records of one object, emptied by one successful remove of that object.
C15_Witness ==
    /\ op = "apr_pollset_remove"
    /\ status = "APR_SUCCESS"
    /\ pollset.nalloc = 2
    /\ pollset.nelts = 0
    /\ pollset.query_set[1].desc = arg.desc
    /\ pollset.query_set[2].desc = arg.desc
    /\ pollset.query_set[1].client_data # pollset.query_set[2].client_data

\* Number of entries of seq equal to the record e.
Count(seq, e) == Cardinality({i \in 1..Len(seq) : seq[i] = e})

\* C16: a successful remove of d keeps every registered entry of another
\* identity registered, with the same multiplicity.
C16_OthersKept ==
    [][(op' = "apr_pollset_remove" /\ status' = "APR_SUCCESS") =>
        \A e \in InputRecords :
            e.desc # arg'.desc =>
                Count(Registered(pollset'), e) = Count(Registered(pollset), e)]_vars

\* The native flags that stand for a set of portable flags.
Native(events) == {q[2] : q \in {r \in FlagPairs : r[1] \in events}}

\* C17: in the event-list backend native entry i holds the handle of
\* query_set[i] and the native form of its reqevents, for every i < count.
C17_NativeArrayAligned ==
    HAVE_POLL(platform) =>
        \A i \in 1..pollset.nelts :
            /\ pollset.pollset[i].fd = Fd(pollset.query_set[i].desc)
            /\ pollset.pollset[i].events = Native(pollset.query_set[i].reqevents)

\* C17 witness: the event-list registry of capacity 3 after d, a, b were
\* added and d removed: the remove copied b over the slot of d.
C17_Witness ==
    /\ HAVE_POLL(platform)
    /\ op = "apr_pollset_remove"
    /\ status = "APR_SUCCESS"
    /\ arg.desc = 3
    /\ pollset.nalloc = 3
    /\ pollset.nelts = 2
    /\ [i \in 1..3 |-> pollset.query_set[i].client_data] = <<"b", "a", "b">>

\* C18: after a successful poll the caller's descriptors pointer is the
\* pollset's result_set, in both backends.
C18_ResultSliceReturned ==
    (op = "apr_pollset_poll" /\ status = "APR_SUCCESS") =>
        descriptors = "result_set"

\* C19: apr_pollset_poll, whatever its outcome, leaves count, the registered
\* entries and their order, the three fd_sets and maxfd as they were.
C19_PollKeepsRegistry ==
    [][op' = "apr_pollset_poll" =>
        /\ pollset'.nelts = pollset.nelts
        /\ pollset'.nalloc = pollset.nalloc
        /\ Registered(pollset') = Registered(pollset)
        /\ pollset'.readset = pollset.readset
        /\ pollset'.writeset = pollset.writeset
        /\ pollset'.exceptset = pollset.exceptset
        /\ pollset'.maxfd = pollset.maxfd]_vars

\* C19 witness: a successful poll of the bitmap backend over two or more
\* entries in which select() rewrote its read set to fewer handles than the
\* pollset's own read set holds.
C19_Witness ==
    /\ op = "apr_pollset_poll"
    /\ status = "APR_SUCCESS"
    /\ ~HAVE_POLL(platform)
    /\ pollset.nelts >= 2
    /\ native.readset # pollset.readset
    /\ native.readset \subseteq pollset.readset

\* C20: in the bitmap backend maxfd is at least the handle of every
\* registered entry.
C20_WatermarkCoversRegistered ==
    ~HAVE_POLL(platform) =>
        \A i \in 1..pollset.nelts :
            Fd(pollset.query_set[i].desc) <= pollset.maxfd

\* The handles of the registered entries whose reqevents meet flags.
Requested(flags) ==
    {Fd(pollset.query_set[i].desc) :
        i \in {k \in 1..pollset.nelts :
                  pollset.query_set[k].reqevents \cap flags # {}}}

\* C21: in the bitmap backend the three fd_sets hold exactly the handles of
\* the registered entries that requested APR_POLLIN, APR_POLLOUT, and any of
\* APR_POLLPRI, APR_POLLERR, APR_POLLHUP, APR_POLLNVAL.
C21_FdSetsExact ==
    ~HAVE_POLL(platform) =>
        /\ pollset.readset = Requested({"APR_POLLIN"})
        /\ pollset.writeset = Requested({"APR_POLLOUT"})
        /\ pollset.exceptset = Requested({"APR_POLLPRI", "APR_POLLERR",
                                          "APR_POLLHUP", "APR_POLLNVAL"})

\* C23: over all callers and calls on one control object func is invoked at
\* most once, by the one thread whose exchange returned 0; it has been
\* invoked exactly once whenever the flag is set and no thread is between
\* its exchange and its call of func, and not at all while the flag is 0.
C23_InvokedOnce ==
    control.allocated =>
        /\ control.invoked <= 1
        /\ Len(control.seen_zero) <= 1
        /\ control.invoked = 1 => control.invokers = control.seen_zero
        /\ control.value = 0 => control.invoked = 0
        /\ (control.value = 1 /\ \A t \in OnceThreads : control.pc[t] # "func")
              => control.invoked = 1

\* C23 witness: every thread made MaxOnceCalls calls, all have returned, and
\* func ran once.
C23_Witness ==
    /\ control.allocated
    /\ \A t \in OnceThreads :
          control.pc[t] = "idle" /\ control.calls[t] = MaxOnceCalls
    /\ control.invoked = 1

\* C22: the private pool of a created thread is destroyed at most once,
\* however the worker's return or apr_thread_exit, apr_thread_join and
\* apr_thread_detach interleave.
C22_PoolDestroyedAtMostOnce ==
    thd.created => thd.destroys <= 1

====
